---- MODULE Spec2Model ----
(***************************************************************************)
(* GraphBolt neighbor sampling (NeighborSampler, LayerNeighborSampler) and *)
(* the MiniBatch block transform (MiniBatch.to_dgl_blocks).                *)
(*                                                                         *)
(* A Python value is a record with one field, named after its type, that  *)
(* holds its content:                                                     *)
(*   None            [none |-> <<>>]                                       *)
(*   torch.Tensor    [tensor |-> sequence of integers]                     *)
(*   dict            [dict |-> function, DOMAIN = keys]                    *)
(*   tuple of two tensors [tuple |-> <<src, dst>>]                         *)
(*   list            [list |-> sequence]                                   *)
(*   str             [str |-> string]                                      *)
(*   int             [int |-> n]                                           *)
(*   float           [float |-> n]     n is the value in tenths (15 is 1.5)*)
(* isinstance(x, t) asks for the field, Val(x) reads the content.          *)
(* Python indices are 0-based, TLA+ sequences 1-based: fanouts[hop] of the *)
(* code is fanouts[hop + 1] here.                                          *)
(***************************************************************************)
EXTENDS Integers, Sequences, FiniteSets, TLC

VARIABLES
    pc,              \* position: new, ready, loop, done, error, batch, blocks
    err,             \* the exception that surfaced ("" when none)
    cls,             \* the class constructed
    given_fanouts,   \* the fanouts argument of __init__
    given_replace,   \* the replace argument of __init__
    given_prob_name, \* the prob_name argument of __init__
    fanouts,         \* self.fanouts
    replace,         \* self.replace
    prob_name,       \* self.prob_name
    sampler,         \* self.sampler: the graph primitive bound at construction
    given_seeds,     \* the seeds argument of _sample_subgraphs
    seeds,           \* local seeds of _sample_subgraphs
    subgraphs,       \* local subgraphs of _sample_subgraphs
    num_layers,      \* local num_layers
    hop,             \* the loop index
    calls,           \* every invocation of self.sampler, in order
    hops,            \* per finished hop: what entered it, what compaction returned, the layer built
    ret,             \* the value _sample_subgraphs returned
    minibatch,       \* the MiniBatch to_dgl_blocks is called on
    blocks_ret       \* the outcome of to_dgl_blocks

vars == <<pc, err, cls, given_fanouts, given_replace, given_prob_name, fanouts, replace, prob_name, sampler,
          given_seeds, seeds, subgraphs, num_layers, hop, calls, hops, ret,
          minibatch, blocks_ret>>

-----------------------------------------------------------------------------
(* Bounds *)

MaxHops == 3

-----------------------------------------------------------------------------
(* Python values *)

None == [none |-> <<>>]

Tensor(s) == [tensor |-> s]

Dict(f) == [dict |-> f]

Tuple2(a, b) == [tuple |-> <<a, b>>]

List(s) == [list |-> s]

PyInt(n) == [int |-> n]

PyFloat(tenths) == [float |-> tenths]

Str(c) == [str |-> c]

isinstance(x, t) == t \in DOMAIN x

Val(x) ==
    CASE isinstance(x, "none") -> x.none
      [] isinstance(x, "tensor") -> x.tensor
      [] isinstance(x, "dict") -> x.dict
      [] isinstance(x, "tuple") -> x.tuple
      [] isinstance(x, "list") -> x.list
      [] isinstance(x, "str") -> x.str
      [] isinstance(x, "int") -> x.int
      [] isinstance(x, "float") -> x.float

Range(s) == {s[i] : i \in 1..Len(s)}

\* The first position of x in s (x occurs in s).
IndexOf(s, x) == CHOOSE i \in 1..Len(s) : s[i] = x /\ \A j \in 1..(i - 1) : s[j] /= x

RECURSIVE Flatten(_)
Flatten(ss) == IF ss = <<>> THEN <<>> ELSE Head(ss) \o Flatten(Tail(ss))

-----------------------------------------------------------------------------
(* The graph handle: a fixed heterogeneous graph and, for tensor seeds, a   *)
(* fixed homogeneous one.                                                  *)

\* graph.metadata.node_type_to_id.keys()
NTypes == {"user", "item"}

\* graph.metadata.edge_type_to_id, in id order
ETypes == <<"user:follows:user", "user:buys:item">>

etype_str_to_tuple(etype) ==
    CASE etype = "user:follows:user" -> <<"user", "follows", "user">>
      [] etype = "user:buys:item" -> <<"user", "buys", "item">>

\* The in-neighbours (sources) of node v under an edge type, in storage order.
InNbrs(etype, v) ==
    CASE etype = "user:follows:user" -> (IF v = 0 THEN <<1>> ELSE <<0>>)
      [] etype = "user:buys:item" -> (IF v = 0 THEN <<0, 1>> ELSE <<1>>)
      [] etype = "_N:_E:_N" -> (IF v = 0 THEN <<1, 2>> ELSE IF v = 1 THEN <<0>> ELSE <<>>)

-----------------------------------------------------------------------------
(* The graph's sampling primitives, graph.sample_neighbors and             *)
(* graph.sample_layer_neighbors: given seeds, a fanout tensor, the replace *)
(* flag and the weight attribute name they return sampled edges incident   *)
(* to the seeds, at most fanout per (node, edge type) unless the fanout is *)
(* negative ("sample all"). Which edges are drawn is not determined.       *)

\* The fanout tensor has one entry, or one entry per declared edge type.
FanoutOk(fanout, hetero) ==
    \/ Len(Val(fanout)) = 1
    \/ hetero /\ Len(Val(fanout)) = Len(ETypes)

\* The count for the k-th edge type.
FanoutFor(fanout, k) == IF Len(Val(fanout)) = 1 THEN Val(fanout)[1] ELSE Val(fanout)[k]

Min(a, b) == IF a < b THEN a ELSE b

\* The elements of N at the positions in S, in order.
RECURSIVE PickAt(_, _, _)
PickAt(N, S, i) ==
    IF i > Len(N) THEN <<>>
    ELSE (IF i \in S THEN <<N[i]>> ELSE <<>>) \o PickAt(N, S, i + 1)

\* What one seed node may draw from its in-neighbours N with count k.
PerNodeChoices(N, k, rep) ==
    IF k < 0 THEN {N}
    ELSE IF N = <<>> THEN {<<>>}
    ELSE IF rep
    THEN {[i \in 1..k |-> N[f[i]]] :
            f \in {g \in [1..k -> 1..Len(N)] : \A i \in 1..(k - 1) : g[i] <= g[i + 1]}}
    ELSE {PickAt(N, S, 1) :
            S \in {T \in SUBSET (1..Len(N)) : Cardinality(T) = Min(k, Len(N))}}

\* The edge batches (sources, destinations) one edge type may yield for the
\* destination nodes dsts.
RECURSIVE EdgeBatches(_, _, _, _)
EdgeBatches(dsts, etype, k, rep) ==
    IF dsts = <<>> THEN {<<(<<>>), (<<>>)>>}
    ELSE {<<c \o rest[1], [i \in 1..Len(c) |-> Head(dsts)] \o rest[2]>> :
            c \in PerNodeChoices(InNbrs(etype, Head(dsts)), k, rep),
            rest \in EdgeBatches(Tail(dsts), etype, k, rep)}

SeedsOfType(s, ntype) == IF ntype \in DOMAIN Val(s) THEN Val(s)[ntype] ELSE <<>>

HeteroBatches(s, fanout, rep, k) ==
    EdgeBatches(SeedsOfType(s, etype_str_to_tuple(ETypes[k])[3]), ETypes[k],
                FanoutFor(fanout, k), rep)

\* subgraph.node_pairs of every subgraph the primitive may return.
SampledNodePairs(s, fanout, rep) ==
    IF isinstance(s, "dict")
    THEN {Dict([e \in Range(ETypes) |-> f[IndexOf(ETypes, e)]]) :
            f \in {g \in [1..Len(ETypes) -> UNION {HeteroBatches(s, fanout, rep, k) : k \in 1..Len(ETypes)}] :
                     \A k \in 1..Len(ETypes) : g[k] \in HeteroBatches(s, fanout, rep, k)}}
    ELSE {Tuple2(b[1], b[2]) : b \in EdgeBatches(Val(s), "_N:_E:_N", Val(fanout)[1], rep)}

-----------------------------------------------------------------------------
(* utils.unique_and_compact_node_pairs: the deduplicated sources of the    *)
(* edge batches, in first-occurrence order, per node type, and the edges   *)
(* renumbered to local indices.                                            *)

RECURSIVE Unique(_)
Unique(s) ==
    IF s = <<>> THEN <<>>
    ELSE LET u == Unique(SubSeq(s, 1, Len(s) - 1))
         IN  IF s[Len(s)] \in Range(u) THEN u ELSE Append(u, s[Len(s)])

\* Local (0-based) indices of the ids in s within the id sequence ids.
Compact(s, ids) == [i \in 1..Len(s) |-> IndexOf(ids, s[i]) - 1]

\* The sources of every edge type whose source type is ntype, in edge type order.
SourcesOfType(node_pairs, ntype) ==
    Flatten([k \in 1..Len(ETypes) |->
        IF ETypes[k] \in DOMAIN Val(node_pairs) /\ etype_str_to_tuple(ETypes[k])[1] = ntype
        THEN Val(node_pairs)[ETypes[k]][1] ELSE <<>>])

unique_and_compact_node_pairs(node_pairs, dst_nodes) ==
    IF isinstance(node_pairs, "dict")
    THEN LET srcTypes == {etype_str_to_tuple(e)[1] : e \in DOMAIN Val(node_pairs)}
             uniq == [t \in srcTypes |-> Unique(SourcesOfType(node_pairs, t))]
         IN  <<Dict(uniq),
               Dict([e \in DOMAIN Val(node_pairs) |->
                   <<Compact(Val(node_pairs)[e][1], uniq[etype_str_to_tuple(e)[1]]),
                     Compact(Val(node_pairs)[e][2], SeedsOfType(dst_nodes, etype_str_to_tuple(e)[3]))>>])>>
    ELSE LET uniq == Unique(Val(node_pairs)[1])
         IN  <<Tensor(uniq),
               Tuple2(Compact(Val(node_pairs)[1], uniq), Compact(Val(node_pairs)[2], Val(dst_nodes)))>>

\* SampledSubgraphImpl(node_pairs, original_column_node_ids, original_row_node_ids)
SampledSubgraphImpl(node_pairs, original_column_node_ids, original_row_node_ids) ==
    [node_pairs |-> node_pairs,
     original_column_node_ids |-> original_column_node_ids,
     original_row_node_ids |-> original_row_node_ids,
     original_edge_ids |-> None]

-----------------------------------------------------------------------------
(* Inputs *)

Classes == {"NeighborSampler", "LayerNeighborSampler"}

\* The elements a fanouts argument is made of.
FanoutChoices ==
    {PyInt(-1), PyFloat(15), Tensor(<<2, 1>>), Tensor(<<>>), Dict(<<>>)}

RECURSIVE SeqsUpTo(_, _)
SeqsUpTo(S, n) ==
    IF n = 0 THEN {<<>>}
    ELSE LET shorter == SeqsUpTo(S, n - 1)
         IN  shorter \cup {Append(q, x) : q \in {r \in shorter : Len(r) = n - 1}, x \in S}

FanoutInputs == SeqsUpTo(FanoutChoices, MaxHops)

ProbNames == {None, Str("weight")}

\* The id sequences a mapping of seeds may hold for a node type.
SeedsFor(ntype) == IF ntype = "user" THEN {<<>>, <<0>>} ELSE {<<1, 0>>}

\* Seeds: a tensor of node ids, or a mapping from some node types to ids.
SeedInputs ==
    {Tensor(q) : q \in {<<>>, <<0>>, <<2>>, <<1, 0>>, <<0, 0>>}}
    \cup {Dict(f) : f \in {g \in UNION {[K -> {<<>>, <<0>>, <<1, 0>>}] : K \in SUBSET NTypes} :
                              \A t \in DOMAIN g : g[t] \in SeedsFor(t)}}

-----------------------------------------------------------------------------
(* NeighborSampler.__init__ and LayerNeighborSampler.__init__ *)

\* int(fanout) is defined for numbers; for a float it truncates toward zero.
IntDefined(fanout) == isinstance(fanout, "int") \/ isinstance(fanout, "float")

int(fanout) ==
    IF isinstance(fanout, "float")
    THEN (IF Val(fanout) >= 0 THEN Val(fanout) \div 10 ELSE -((-Val(fanout)) \div 10))
    ELSE Val(fanout)

\* ConvertFanout turning a negative count into zero.
ConvertFanoutClamped(fanout) ==
    IF ~isinstance(fanout, "tensor")
    THEN Tensor(<<IF int(fanout) < 0 THEN 0 ELSE int(fanout)>>)
    ELSE fanout

\* The loop body that converts one fanout to a tensor.
ConvertFanout(fanout) ==
    IF ~isinstance(fanout, "tensor") THEN Tensor(<<int(fanout)>>) ELSE fanout

Convertible(fanout) == isinstance(fanout, "tensor") \/ IntDefined(fanout)

\* BoundSampler without the assignment of LayerNeighborSampler.__init__.
BoundSamplerBaseOnly(c) == "sample_neighbors"

\* self.sampler as left by the constructor of class c.
BoundSampler(c) ==
    IF c = "LayerNeighborSampler" THEN "sample_layer_neighbors" ELSE "sample_neighbors"

Construct ==
    /\ pc = "new"
    /\ \E c \in Classes, f \in FanoutInputs, r \in BOOLEAN, p \in ProbNames :
         /\ given_fanouts' = f
         /\ given_replace' = r
         /\ given_prob_name' = p
         /\ IF \A i \in 1..Len(f) : Convertible(f[i])
            THEN /\ cls' = c
                 /\ fanouts' = [i \in 1..Len(f) |-> ConvertFanout(f[i])]
                 /\ replace' = r
                 /\ prob_name' = p
                 /\ sampler' = BoundSampler(c)
                 /\ pc' = "ready"
                 /\ err' = err
            ELSE /\ pc' = "error"
                 /\ err' = "TypeError"
                 /\ UNCHANGED <<cls, fanouts, replace, prob_name, sampler>>
    /\ UNCHANGED <<given_seeds, seeds, subgraphs, num_layers, hop, calls, hops, ret,
                   minibatch, blocks_ret>>

-----------------------------------------------------------------------------
(* NeighborSampler._sample_subgraphs *)

\* EnrichSeeds leaving a mapping as it was given.
EnrichSeedsSkipped(s) == s

\* Enrich seeds with all node types.
EnrichSeeds(s) ==
    IF isinstance(s, "dict")
    THEN Dict([ntype \in NTypes |-> IF ntype \in DOMAIN Val(s) THEN Val(s)[ntype] ELSE <<>>])
    ELSE s

\* The arguments of self.sampler(...) at the current hop.
SamplerArgs ==
    [prim |-> sampler, seeds |-> seeds, fanout |-> fanouts[hop + 1],
     replace |-> replace, prob_name |-> prob_name]

\* BuildLayer with original_column_node_ids read after compaction replaced seeds.
BuildLayerColumnAfterCompaction(compacted_node_pairs, original_column_node_ids, new_seeds) ==
    SampledSubgraphImpl(compacted_node_pairs, new_seeds, new_seeds)

\* BuildLayer with the two original-id arguments exchanged.
BuildLayerSwapped(compacted_node_pairs, original_column_node_ids, new_seeds) ==
    SampledSubgraphImpl(compacted_node_pairs, new_seeds, original_column_node_ids)

\* BuildLayer with the seeds that entered the hop as both original-id fields.
BuildLayerRowFromColumn(compacted_node_pairs, original_column_node_ids, new_seeds) ==
    SampledSubgraphImpl(compacted_node_pairs, original_column_node_ids,
                        original_column_node_ids)

\* The layer built from the seeds that entered the hop and compaction's result.
BuildLayer(compacted_node_pairs, original_column_node_ids, new_seeds) ==
    SampledSubgraphImpl(compacted_node_pairs, original_column_node_ids, new_seeds)

\* InsertLayer appending at the end instead of inserting at the front.
InsertLayerAtEnd(list, subgraph) == Append(list, subgraph)

\* A node set without a node: an empty tensor, or a mapping of empty entries.
EmptyNodeSet(x) ==
    IF isinstance(x, "dict")
    THEN \A t \in DOMAIN Val(x) : Val(x)[t] = <<>>
    ELSE Val(x) = <<>>

\* An edge list without an edge, for every edge type of a mapping.
EmptyEdgeList(node_pairs) ==
    IF isinstance(node_pairs, "dict")
    THEN \A e \in DOMAIN Val(node_pairs) : Val(node_pairs)[e] = << <<>>, <<>> >>
    ELSE Val(node_pairs) = << <<>>, <<>> >>

\* InsertLayer leaving out a layer that has no edge.
InsertLayerSkipEmpty(list, subgraph) ==
    IF EmptyEdgeList(subgraph.node_pairs) THEN list ELSE <<subgraph>> \o list

\* subgraphs.insert(0, subgraph)
InsertLayer(list, subgraph) == <<subgraph>> \o list

\* ReturnValue returning the seeds that entered the last hop.
ReturnValueStale ==
    Tuple2(IF subgraphs = <<>> THEN seeds ELSE subgraphs[1].original_column_node_ids,
           subgraphs)

\* return seeds, subgraphs
ReturnValue == Tuple2(seeds, subgraphs)

\* Entry of _sample_subgraphs up to the loop.
Call ==
    /\ pc = "ready"
    /\ \E s \in SeedInputs :
         /\ given_seeds' = s
         /\ seeds' = EnrichSeeds(s)
    /\ subgraphs' = <<>>
    /\ num_layers' = Len(fanouts)
    /\ hop' = 0
    /\ pc' = "loop"
    /\ UNCHANGED <<err, cls, given_fanouts, given_replace, given_prob_name, fanouts,
                   replace, prob_name, sampler, calls, hops, ret, minibatch, blocks_ret>>

\* One iteration of the loop over hops.
Hop ==
    /\ pc = "loop"
    /\ hop < num_layers
    /\ calls' = Append(calls, SamplerArgs)
    /\ IF FanoutOk(SamplerArgs.fanout, isinstance(seeds, "dict"))
       THEN \E node_pairs \in SampledNodePairs(SamplerArgs.seeds, SamplerArgs.fanout,
                                                 SamplerArgs.replace) :
              LET original_column_node_ids == seeds
                  compacted == unique_and_compact_node_pairs(node_pairs, seeds)
                  subgraph == BuildLayer(compacted[2], original_column_node_ids, compacted[1])
              IN  /\ seeds' = compacted[1]
                  /\ subgraphs' = InsertLayer(subgraphs, subgraph)
                  /\ hops' = Append(hops, [entered |-> seeds, compacted |-> compacted[1],
                                           layer |-> subgraph])
                  /\ hop' = hop + 1
                  /\ UNCHANGED <<pc, err>>
       ELSE /\ pc' = "error"
            /\ err' = "AssertionError"
            /\ UNCHANGED <<seeds, subgraphs, hops, hop>>
    /\ UNCHANGED <<cls, given_fanouts, given_replace, given_prob_name, fanouts, replace,
                   prob_name, sampler, given_seeds, num_layers, ret, minibatch,
                   blocks_ret>>

\* The loop is over: return.
Return ==
    /\ pc = "loop"
    /\ hop = num_layers
    /\ ret' = ReturnValue
    /\ pc' = "done"
    /\ UNCHANGED <<err, cls, given_fanouts, given_replace, given_prob_name, fanouts,
                   replace, prob_name, sampler, given_seeds, seeds, subgraphs, num_layers, hop, calls, hops,
                   minibatch, blocks_ret>>

-----------------------------------------------------------------------------
(* MiniBatch and MiniBatch.to_dgl_blocks.  The minibatches modelled carry  *)
(* no node_features and no edge_features, and their layers are all of one  *)
(* kind (all homogeneous or all heterogeneous).                            *)

MiniBatch(sampled_subgraphs, input_nodes) ==
    [sampled_subgraphs |-> sampled_subgraphs, input_nodes |-> input_nodes]

WithIds(layer, row, col, eids) ==
    [layer EXCEPT !.original_row_node_ids = row, !.original_column_node_ids = col,
                  !.original_edge_ids = eids]

HomoLayerA == SampledSubgraphImpl(Tuple2(<<0, 1>>, <<0, 0>>), Tensor(<<0>>), Tensor(<<1, 2>>))

HomoLayerB ==
    WithIds(SampledSubgraphImpl(Tuple2(<<0>>, <<1>>), None, None),
            Tensor(<<2>>), Tensor(<<1, 0>>), Tensor(<<7>>))

HeteroLayerA ==
    SampledSubgraphImpl(Dict([e \in {"user:buys:item"} |-> <<(<<0, 1>>), (<<0, 0>>)>>]),
                        Dict([t \in NTypes |-> IF t = "item" THEN <<0>> ELSE <<>>]),
                        Dict([t \in {"user"} |-> <<0, 1>>]))

HeteroLayerB ==
    WithIds(SampledSubgraphImpl(Dict([e \in {"user:follows:user"} |-> <<(<<0>>), (<<1>>)>>]),
                                None, None),
            Dict([t \in {"user"} |-> <<1>>]), Dict([t \in {"user"} |-> <<0, 1>>]),
            Dict([e \in {"user:follows:user"} |-> <<4>>]))

\* A layer, and the same layer constructed without one of its original-id fields.
Variants(layer) ==
    {layer,
     [layer EXCEPT !.original_row_node_ids = None],
     [layer EXCEPT !.original_column_node_ids = None]}

LayerListInputs ==
    SeqsUpTo(Variants(HomoLayerA) \cup {HomoLayerB}, MaxHops)
    \cup SeqsUpTo(Variants(HeteroLayerA) \cup {HeteroLayerB}, MaxHops)

\* dgl.create_block(node_pairs, num_src_nodes=..., num_dst_nodes=...)
create_block(node_pairs, num_src_nodes, num_dst_nodes) ==
    [node_pairs |-> node_pairs, num_src_nodes |-> num_src_nodes,
     num_dst_nodes |-> num_dst_nodes, NID |-> None, EID |-> None]

Raise(exception) == [status |-> "raise", value |-> exception]

Returned(value) == [status |-> "return", value |-> value]

\* RowIdsPresent with the assertion left out.
RowIdsNotChecked(subgraph) == TRUE

\* assert original_row_node_ids is not None
RowIdsPresent(subgraph) == ~isinstance(subgraph.original_row_node_ids, "none")

\* assert original_column_node_ids is not None
ColumnIdsPresent(subgraph) == ~isinstance(subgraph.original_column_node_ids, "none")

\* {ntype: nodes.size(0) ...} for a dict of tensors, nodes.size(0) for a tensor
NumNodes(is_heterogeneous, ids) ==
    IF is_heterogeneous
    THEN Dict([ntype \in DOMAIN Val(ids) |-> Len(Val(ids)[ntype])])
    ELSE Len(Val(ids))

\* BlockOf with the two node counts exchanged.
BlockOfCountsSwapped(is_heterogeneous, subgraph) ==
    create_block(
        IF is_heterogeneous
        THEN Dict([t \in {etype_str_to_tuple(e) : e \in DOMAIN Val(subgraph.node_pairs)} |->
                 Val(subgraph.node_pairs)[CHOOSE e \in DOMAIN Val(subgraph.node_pairs) :
                                           etype_str_to_tuple(e) = t]])
        ELSE subgraph.node_pairs,
        NumNodes(is_heterogeneous, subgraph.original_column_node_ids),
        NumNodes(is_heterogeneous, subgraph.original_row_node_ids))

\* The block of one layer.
BlockOf(is_heterogeneous, subgraph) ==
    create_block(
        IF is_heterogeneous
        THEN Dict([t \in {etype_str_to_tuple(e) : e \in DOMAIN Val(subgraph.node_pairs)} |->
                 Val(subgraph.node_pairs)[CHOOSE e \in DOMAIN Val(subgraph.node_pairs) :
                                           etype_str_to_tuple(e) = t]])
        ELSE subgraph.node_pairs,
        NumNodes(is_heterogeneous, subgraph.original_row_node_ids),
        NumNodes(is_heterogeneous, subgraph.original_column_node_ids))

\* blocks.append(dgl.create_block(...))
AppendBlock(blocks, block) == Append(blocks, block)

\* The loop over self.sampled_subgraphs, from the i-th layer on.
RECURSIVE BuildBlocks(_, _, _, _)
BuildBlocks(sampled_subgraphs, is_heterogeneous, i, blocks) ==
    IF i > Len(sampled_subgraphs) THEN Returned(blocks)
    ELSE LET subgraph == sampled_subgraphs[i]
         IN  IF ~RowIdsPresent(subgraph)
             THEN Raise("AssertionError: Missing original_row_node_ids")
             ELSE IF ~ColumnIdsPresent(subgraph)
             THEN Raise("AssertionError: Missing original_column_node_ids")
             ELSE BuildBlocks(sampled_subgraphs, is_heterogeneous, i + 1,
                              AppendBlock(blocks, BlockOf(is_heterogeneous, subgraph)))

\* Whether the reverse edge ids of a layer are assigned to its block.
HasEdgeIds(is_heterogeneous, subgraph) ==
    IF is_heterogeneous
    THEN /\ ~isinstance(subgraph.original_edge_ids, "none")
         /\ DOMAIN Val(subgraph.original_edge_ids) /= {}
    ELSE ~isinstance(subgraph.original_edge_ids, "none")

\* The reverse ids assigned after the loop: node ids on the first block's
\* source nodes, edge ids on every block whose layer has them.
Annotate(sampled_subgraphs, is_heterogeneous, blocks) ==
    [i \in 1..Len(blocks) |->
        [blocks[i] EXCEPT
            !.NID = IF i = 1 THEN sampled_subgraphs[1].original_row_node_ids ELSE @,
            !.EID = IF HasEdgeIds(is_heterogeneous, sampled_subgraphs[i])
                    THEN (IF is_heterogeneous
                          THEN Dict([t \in {etype_str_to_tuple(e) :
                                              e \in DOMAIN Val(sampled_subgraphs[i].original_edge_ids)} |->
                                   Val(sampled_subgraphs[i].original_edge_ids)[
                                       CHOOSE e \in DOMAIN Val(sampled_subgraphs[i].original_edge_ids) :
                                           etype_str_to_tuple(e) = t]])
                          ELSE sampled_subgraphs[i].original_edge_ids)
                    ELSE @]]

to_dgl_blocks(self) ==
    IF isinstance(self.sampled_subgraphs, "none") \/ Len(Val(self.sampled_subgraphs)) = 0
    THEN Returned(None)
    ELSE LET sampled_subgraphs == Val(self.sampled_subgraphs)
             is_heterogeneous == isinstance(sampled_subgraphs[1].node_pairs, "dict")
             built == BuildBlocks(sampled_subgraphs, is_heterogeneous, 1, <<>>)
         IN  IF built.status = "raise" THEN built
             ELSE Returned(List(Annotate(sampled_subgraphs, is_heterogeneous, built.value)))

\* A MiniBatch constructed directly from a layer list (or with none).
NewMiniBatch ==
    /\ pc = "new"
    /\ \E sampled_subgraphs \in {List(q) : q \in LayerListInputs} \cup {None} :
         minibatch' = MiniBatch(sampled_subgraphs, None)
    /\ pc' = "batch"
    /\ UNCHANGED <<err, cls, given_fanouts, given_replace, given_prob_name, fanouts,
                   replace, prob_name, sampler, given_seeds, seeds, subgraphs, num_layers, hop, calls, hops, ret,
                   blocks_ret>>

\* The sampler's result stored in the minibatch it was computed for.
Assemble ==
    /\ pc = "done"
    /\ minibatch' = MiniBatch(List(Val(ret)[2]), Val(ret)[1])
    /\ pc' = "batch"
    /\ UNCHANGED <<err, cls, given_fanouts, given_replace, given_prob_name, fanouts,
                   replace, prob_name, sampler, given_seeds, seeds, subgraphs, num_layers, hop, calls, hops, ret,
                   blocks_ret>>

ToDglBlocks ==
    /\ pc = "batch"
    /\ blocks_ret' = to_dgl_blocks(minibatch)
    /\ pc' = "blocks"
    /\ UNCHANGED <<err, cls, given_fanouts, given_replace, given_prob_name, fanouts,
                   replace, prob_name, sampler, given_seeds, seeds, subgraphs, num_layers, hop, calls, hops, ret,
                   minibatch>>

-----------------------------------------------------------------------------

Init ==
    /\ pc = "new"
    /\ err = ""
    /\ cls = ""
    /\ given_fanouts = <<>>
    /\ given_replace = FALSE
    /\ given_prob_name = None
    /\ fanouts = <<>>
    /\ replace = FALSE
    /\ prob_name = None
    /\ sampler = ""
    /\ given_seeds = None
    /\ seeds = None
    /\ subgraphs = <<>>
    /\ num_layers = 0
    /\ hop = 0
    /\ calls = <<>>
    /\ hops = <<>>
    /\ ret = None
    /\ minibatch = None
    /\ blocks_ret = None

Next ==
    \/ Construct
    \/ Call
    \/ Hop
    \/ Return
    \/ NewMiniBatch
    \/ Assemble
    \/ ToDglBlocks

Spec == Init /\ [][Next]_vars

-----------------------------------------------------------------------------
(* Properties *)

\* _sample_subgraphs has returned.
HasReturned == isinstance(ret, "tuple")

\* The layer list _sample_subgraphs returned.
ReturnedLayers == Val(ret)[2]

\* C1. Chaining: in the returned layer list the original_column_node_ids of the
\* layer at index i are the original_row_node_ids of the layer at index i+1.
C1_Chaining ==
    HasReturned =>
        \A i \in 1..(Len(ReturnedLayers) - 1) :
            ReturnedLayers[i].original_column_node_ids
                = ReturnedLayers[i + 1].original_row_node_ids

\* Three layers were returned, with edges in each, and the node sets along the
\* chain are not all the same.
C1_Witness ==
    /\ HasReturned
    /\ Len(ReturnedLayers) = MaxHops
    /\ isinstance(given_seeds, "tensor")
    /\ \A i \in 1..Len(ReturnedLayers) : Len(Val(ReturnedLayers[i].node_pairs)[1]) > 0
    /\ ReturnedLayers[1].original_column_node_ids /= ReturnedLayers[1].original_row_node_ids

\* C2. Layer order: each hop adds exactly one layer, at the front, and never
\* removes or replaces one: at every point the list holds one layer per finished
\* hop, the layer at index i being the one built i hops before the latest; the
\* returned list has one entry per fanout, the entry at index i built at hop
\* L-1-i.
C2_LayerOrder ==
    /\ Len(subgraphs) = Len(hops)
    /\ Len(subgraphs) = hop
    /\ \A i \in 0..(Len(subgraphs) - 1) : subgraphs[i + 1] = hops[Len(hops) - i].layer
    /\ HasReturned =>
          /\ ReturnedLayers = subgraphs
          /\ Len(ReturnedLayers) = Len(given_fanouts)

\* Three hops were made and their three layers differ.
C2_Witness ==
    /\ HasReturned
    /\ Len(ReturnedLayers) = MaxHops
    /\ isinstance(given_seeds, "tensor")
    /\ \A i, j \in 1..Len(hops) : i /= j => hops[i].layer /= hops[j].layer

\* x is s with an entry for every declared node type: the given sequence for a
\* type s has, the empty sequence for a type it lacks.
IsEnrichmentOf(x, s) ==
    /\ isinstance(x, "dict")
    /\ DOMAIN Val(x) = NTypes
    /\ \A t \in NTypes : Val(x)[t] = (IF t \in DOMAIN Val(s) THEN Val(s)[t] ELSE <<>>)

\* C3. Per-layer ids: the layer built at a hop has for original_column_node_ids
\* the seeds that entered the hop (those handed to the primitive and to
\* compaction) and for original_row_node_ids the node set compaction returned;
\* the last returned layer has for original_column_node_ids the initial seeds
\* (enriched, when they are a mapping).
C3_LayerIds ==
    /\ \A h \in 1..Len(hops) :
          /\ hops[h].layer.original_column_node_ids = calls[h].seeds
          /\ hops[h].layer.original_column_node_ids = hops[h].entered
          /\ hops[h].layer.original_row_node_ids = hops[h].compacted
    /\ (HasReturned /\ Len(ReturnedLayers) >= 1) =>
          LET last == ReturnedLayers[Len(ReturnedLayers)].original_column_node_ids
          IN  IF isinstance(given_seeds, "dict")
              THEN IsEnrichmentOf(last, given_seeds)
              ELSE last = given_seeds

\* Two or more hops from mapping seeds that lack a node type, the first hop
\* finding nodes that differ from its seeds.
C3_Witness ==
    /\ HasReturned
    /\ Len(ReturnedLayers) >= 2
    /\ isinstance(given_seeds, "dict")
    /\ DOMAIN Val(given_seeds) = {"item"}
    /\ hops[1].compacted /= hops[1].entered
    /\ Len(Val(hops[1].compacted)["user"]) = 2

\* C4. Terminal output: with at least one hop, the node set returned is the one
\* compaction returned at the last hop, and it is the original_row_node_ids of
\* the returned layer at index 0.
C4_TerminalOutput ==
    (HasReturned /\ Len(given_fanouts) >= 1) =>
        /\ Val(ret)[1] = hops[Len(hops)].compacted
        /\ Val(ret)[1] = ReturnedLayers[1].original_row_node_ids

\* Two hops were made and the last changed the node set.
C4_Witness ==
    /\ HasReturned
    /\ Len(given_fanouts) = 2
    /\ Val(ret)[1] /= hops[Len(hops)].entered
    /\ isinstance(Val(ret)[1], "tensor")
    /\ Len(Val(Val(ret)[1])) >= 2

\* C5. Seed enrichment: the seeds handed to the first sampling call are, for
\* mapping seeds, a mapping over every declared node type, each type of the
\* input keeping its sequence and each absent type mapped to the empty sequence;
\* seeds that are no mapping are handed over unchanged.
C5_SeedEnrichment ==
    Len(calls) >= 1 =>
        IF isinstance(given_seeds, "dict")
        THEN IsEnrichmentOf(calls[1].seeds, given_seeds)
        ELSE calls[1].seeds = given_seeds

\* A sampling call was made for mapping seeds populated for one node type only.
C5_Witness ==
    /\ Len(calls) >= 1
    /\ isinstance(given_seeds, "dict")
    /\ DOMAIN Val(given_seeds) = {"item"}
    /\ Len(Val(given_seeds)["item"]) = 2
    /\ HasReturned

\* C6. Policy selection and pass-through: every sampling call of a
\* NeighborSampler is to sample_neighbors and every one of a
\* LayerNeighborSampler to sample_layer_neighbors, one call per hop, each with
\* the replace flag and the prob_name given at construction.
C6_PolicyPassThrough ==
    /\ \A k \in 1..Len(calls) :
          /\ cls = "NeighborSampler" => calls[k].prim = "sample_neighbors"
          /\ cls = "LayerNeighborSampler" => calls[k].prim = "sample_layer_neighbors"
          /\ calls[k].replace = given_replace
          /\ calls[k].prob_name = given_prob_name
    /\ Len(calls) = (IF pc = "error" /\ err = "AssertionError" THEN hop + 1 ELSE hop)
    /\ HasReturned => Len(calls) = Len(given_fanouts)

\* A LayerNeighborSampler built with replace and a prob_name made three calls.
C6_Witness ==
    /\ HasReturned
    /\ cls = "LayerNeighborSampler"
    /\ Len(calls) = MaxHops
    /\ given_replace
    /\ isinstance(given_prob_name, "str")

\* C7. Fanout pass-through: there are as many hops as fanouts, the call of hop h
\* receives the h-th fanout given at construction, an integer as a tensor
\* holding that integer (negative ones too) and a tensor as it was given.
C7_FanoutPassThrough ==
    /\ Len(calls) <= Len(given_fanouts)
    /\ HasReturned => (Len(calls) = Len(given_fanouts) /\ hop = Len(given_fanouts))
    /\ \A h \in 1..Len(calls) :
          /\ isinstance(given_fanouts[h], "int") =>
                calls[h].fanout = Tensor(<<Val(given_fanouts[h])>>)
          /\ isinstance(given_fanouts[h], "tensor") => calls[h].fanout = given_fanouts[h]

\* Three hops, the second with the integer -1 and the third with a tensor.
C7_Witness ==
    /\ HasReturned
    /\ Len(given_fanouts) = MaxHops
    /\ isinstance(given_fanouts[2], "int")
    /\ Val(given_fanouts[2]) = -1
    /\ isinstance(given_fanouts[MaxHops], "tensor")
    /\ Val(calls[2].fanout) = <<-1>>

\* C8. Eager configuration error: when a fanout lacks an entry for a declared
\* edge type, whatever its hop, the error surfaces with no hop sampled and no
\* layer built.
C8_EagerConfigurationError ==
    (pc = "error" /\ err = "AssertionError") => (hops = <<>> /\ subgraphs = <<>>)

\* to_dgl_blocks was called on a minibatch with a non-empty layer list.
TransformedLayers == pc = "blocks" /\ isinstance(minibatch.sampled_subgraphs, "list")

MissesIds(subgraph) ==
    \/ isinstance(subgraph.original_row_node_ids, "none")
    \/ isinstance(subgraph.original_column_node_ids, "none")

\* C9. Block-transform precondition: with a non-empty layer list in which some
\* layer, at any position, lacks original_row_node_ids or
\* original_column_node_ids, to_dgl_blocks raises and returns no blocks.
C9_MissingIdsFatal ==
    (/\ TransformedLayers
     /\ \E i \in 1..Len(Val(minibatch.sampled_subgraphs)) :
           MissesIds(Val(minibatch.sampled_subgraphs)[i]))
    => blocks_ret.status = "raise"

\* The transform raised on three layers of which only the last lacks an id field.
C9_Witness ==
    /\ TransformedLayers
    /\ Len(Val(minibatch.sampled_subgraphs)) = MaxHops
    /\ \A i \in 1..(MaxHops - 1) : ~MissesIds(Val(minibatch.sampled_subgraphs)[i])
    /\ isinstance(Val(minibatch.sampled_subgraphs)[MaxHops].original_row_node_ids, "none")
    /\ blocks_ret.status = "raise"

\* The edge list of block b is the local edge list of layer g.
SameEdges(b, g) ==
    IF isinstance(g.node_pairs, "dict")
    THEN /\ isinstance(b.node_pairs, "dict")
         /\ DOMAIN Val(b.node_pairs) = {etype_str_to_tuple(e) : e \in DOMAIN Val(g.node_pairs)}
         /\ \A e \in DOMAIN Val(g.node_pairs) :
               Val(b.node_pairs)[etype_str_to_tuple(e)] = Val(g.node_pairs)[e]
    ELSE b.node_pairs = g.node_pairs

\* The node count n is the number of ids, per node type for a mapping.
CountsIds(n, ids) ==
    IF isinstance(ids, "dict")
    THEN /\ DOMAIN Val(n) = DOMAIN Val(ids)
         /\ \A t \in DOMAIN Val(ids) : Val(n)[t] = Len(Val(ids)[t])
    ELSE n = Len(Val(ids))

\* C10. Block shape: with a non-empty layer list in which every layer has both
\* original-id fields, to_dgl_blocks returns one block per layer, in the layers'
\* order, block i built from layer i's local edge list with as many source nodes
\* as layer i has original_row_node_ids and as many destination nodes as it has
\* original_column_node_ids.
C10_BlockShape ==
    (/\ TransformedLayers
     /\ Len(Val(minibatch.sampled_subgraphs)) >= 1
     /\ \A i \in 1..Len(Val(minibatch.sampled_subgraphs)) :
           ~MissesIds(Val(minibatch.sampled_subgraphs)[i]))
    => /\ blocks_ret.status = "return"
       /\ isinstance(blocks_ret.value, "list")
       /\ Len(Val(blocks_ret.value)) = Len(Val(minibatch.sampled_subgraphs))
       /\ \A i \in 1..Len(Val(minibatch.sampled_subgraphs)) :
             LET b == Val(blocks_ret.value)[i]
                 g == Val(minibatch.sampled_subgraphs)[i]
             IN  /\ SameEdges(b, g)
                 /\ CountsIds(b.num_src_nodes, g.original_row_node_ids)
                 /\ CountsIds(b.num_dst_nodes, g.original_column_node_ids)

\* Blocks were returned for sampled heterogeneous layers whose node counts differ.
C10_Witness ==
    /\ TransformedLayers
    /\ HasReturned
    /\ blocks_ret.status = "return"
    /\ isinstance(blocks_ret.value, "list")
    /\ Len(Val(blocks_ret.value)) >= 2
    /\ isinstance(given_seeds, "dict")
    /\ Val(blocks_ret.value)[2].num_src_nodes /= Val(blocks_ret.value)[2].num_dst_nodes
    /\ Len(Val(Val(minibatch.sampled_subgraphs)[2].node_pairs)["user:buys:item"][1]) >= 2
    /\ Val(blocks_ret.value)[1] /= Val(blocks_ret.value)[2]

NoDuplicate(s) == \A i, j \in 1..Len(s) : s[i] = s[j] => i = j

\* No id occurs twice in the ids, per node type for a mapping.
IdsNoDuplicate(ids) ==
    IF isinstance(ids, "dict")
    THEN \A t \in DOMAIN Val(ids) : NoDuplicate(Val(ids)[t])
    ELSE NoDuplicate(Val(ids))

\* Every local index of idx is a position (from 0) of the id sequence ids.
ValidIndices(idx, ids) == \A i \in 1..Len(idx) : idx[i] \in 0..(Len(ids) - 1)

\* The local sources of layer g index its original_row_node_ids and the local
\* destinations its original_column_node_ids, of the edge type's node types
\* for a mapping.
LayerIndicesValid(g) ==
    IF isinstance(g.node_pairs, "dict")
    THEN \A e \in DOMAIN Val(g.node_pairs) :
            /\ ValidIndices(Val(g.node_pairs)[e][1],
                            SeedsOfType(g.original_row_node_ids, etype_str_to_tuple(e)[1]))
            /\ ValidIndices(Val(g.node_pairs)[e][2],
                            SeedsOfType(g.original_column_node_ids, etype_str_to_tuple(e)[3]))
    ELSE /\ ValidIndices(Val(g.node_pairs)[1], Val(g.original_row_node_ids))
         /\ ValidIndices(Val(g.node_pairs)[2], Val(g.original_column_node_ids))

\* C12 as stated. Dedup invariant: in every returned layer the local source
\* indices are valid indices into original_row_node_ids, the local destination
\* indices are valid indices into original_column_node_ids, and neither
\* original-id sequence holds a duplicate.
C12_DedupAllLayers ==
    HasReturned =>
        \A i \in 1..Len(ReturnedLayers) :
            /\ LayerIndicesValid(ReturnedLayers[i])
            /\ IdsNoDuplicate(ReturnedLayers[i].original_row_node_ids)
            /\ IdsNoDuplicate(ReturnedLayers[i].original_column_node_ids)

\* C12. Dedup invariant, amended: in every returned layer the local source
\* indices are valid indices into original_row_node_ids, the local destination
\* indices are valid indices into original_column_node_ids, and
\* original_row_node_ids holds no duplicate; original_column_node_ids holds no
\* duplicate in every layer but the last, whose original_column_node_ids are
\* the seeds as given and hold a duplicate exactly when the given seeds do.
C12_Dedup ==
    HasReturned =>
        \A i \in 1..Len(ReturnedLayers) :
            /\ LayerIndicesValid(ReturnedLayers[i])
            /\ IdsNoDuplicate(ReturnedLayers[i].original_row_node_ids)
            /\ i < Len(ReturnedLayers) =>
                  IdsNoDuplicate(ReturnedLayers[i].original_column_node_ids)
            /\ i = Len(ReturnedLayers) =>
                  (IdsNoDuplicate(ReturnedLayers[i].original_column_node_ids)
                      <=> IdsNoDuplicate(given_seeds))

\* Two layers were returned for seeds naming a node twice; the last layer has
\* edges from two sources and the other layer has an edge too.
C12_Witness ==
    /\ HasReturned
    /\ Len(ReturnedLayers) = 2
    /\ isinstance(given_seeds, "tensor")
    /\ ~IdsNoDuplicate(given_seeds)
    /\ Len(Val(ReturnedLayers[2].original_row_node_ids)) = 2
    /\ Len(Val(ReturnedLayers[2].node_pairs)[1]) > 2
    /\ Len(Val(ReturnedLayers[1].node_pairs)[1]) >= 1

\* C13. Per-hop enrichment: at every hop, the first and the later ones, a seed
\* mapping handed to the sampling primitive has an entry for every node type
\* the graph declares.
C13_PerHopEnrichment ==
    \A k \in 1..Len(calls) :
        isinstance(calls[k].seeds, "dict") => DOMAIN Val(calls[k].seeds) = NTypes

====
